---- MODULE Spec2Model ----
(***************************************************************************)
(* Model of stepfunctions.template.pipeline.inference.InferencePipeline:   *)
(* the workflow definition built at construction, the input template       *)
(* extracted from it, and execute(), which patches job names, S3 paths and *)
(* hyperparameters into the template and starts an execution.              *)
(*                                                                         *)
(* Python strings are TLA+ strings (concatenation is \o).  A Python dict   *)
(* with fixed keys is a record; the HyperParameters dicts, whose key set   *)
(* varies and which can be aliased to an object of the caller, live in     *)
(* `heap` and are referred to by reference.                                *)
(***************************************************************************)
EXTENDS Integers, Sequences, FiniteSets, TLC

VARIABLES
    s3_bucket,       \* self.s3_bucket
    pipeline_name,   \* self.pipeline_name
    workflow,        \* self.workflow: [name]
    definition,      \* self.definition: the Chain, as [StartAt, States]
    input_template,  \* self.input_template: step id -> parameters of the step
    heap,            \* the HyperParameters dict objects, by reference
    template0,       \* value of the template right after construction
    caller_hp,       \* the caller's hyperparameters object still referenced
                     \* by the pipeline, with its value before the call
    execution,       \* the latest call of workflow.execute: <<>> or <<e>>
    entered,         \* states entered by the latest execution, in order
    status           \* "none", "running", "succeeded" or "failed"

vars == <<s3_bucket, pipeline_name, workflow, definition, input_template,
          heap, template0, caller_hp, execution, entered, status>>

----------------------------------------------------------------------------
(* Bounds of the model *)

\* ProductionVariants of the template has 1..MaxVariants entries
MaxVariants == 2

Buckets == {"bkt", "b2"}
PipelineNames == {"pl"}
Timestamps == {"t1", "t2"}
JobNames == {"j1", "pl"}
HPValues == {"1", "2"}

----------------------------------------------------------------------------
(* Optional arguments: None or a given value *)

None == [given |-> FALSE]

Some(v) == [given |-> TRUE, val |-> v]

----------------------------------------------------------------------------
(* StepId values *)

TrainPreprocessor == "Train Preprocessor"

CreatePreprocessorModel == "Create Preprocessor Model"

TransformInput == "Transform Input"

Train == "Training"

CreatePipelineModel == "Create Pipeline Model"

ConfigureEndpoint == "Configure Endpoint"

Deploy == "Deploy"

StepIds == {TrainPreprocessor, CreatePreprocessorModel, TransformInput, Train,
            CreatePipelineModel, ConfigureEndpoint, Deploy}

\* sagemaker.model.JOB_NAME_PARAM_NAME
JOB_NAME_PARAM_NAME == "sagemaker_job_name"

----------------------------------------------------------------------------
(* Python dicts with a varying key set: functions on a finite set of keys *)

HPKeys == {JOB_NAME_PARAM_NAME, "epochs"}

\* the hyperparameter mappings an estimator or a caller may hold
HPDicts ==
    {d \in UNION {[D -> HPValues] : D \in SUBSET HPKeys} :
        JOB_NAME_PARAM_NAME \in DOMAIN d => d[JOB_NAME_PARAM_NAME] = "1"}

\* d[key] = value
DictSet(d, key, value) ==
    [k \in (DOMAIN d) \cup {key} |-> IF k = key THEN value ELSE d[k]]

\* references of the HyperParameters objects
PreprocessorHPRef == 0

EstimatorHPRef == 1

CallerHPRef == 2

----------------------------------------------------------------------------
(* Construction *)

\* one channel of an InputDataConfig
Channel(name, uri) ==
    [ChannelName |-> name,
     DataSource |-> [S3DataSource |->
         [S3DataDistributionType |-> "FullyReplicated",
          S3DataType |-> "S3Prefix",
          S3Uri |-> uri]]]

\* the InputDataConfig a TrainingStep derives from `inputs`, a dict that has
\* the key 'train' (line 112) and possibly more channels
InputChannels(extra) ==
    <<Channel("train", "s3://data/train")>> \o
    (IF extra THEN <<Channel("validation", "s3://data/val")>> ELSE <<>>)

\* the parameters of a TrainingStep
TrainingStep(state_id, hp_ref, job_name, data) ==
    [state_id |-> state_id,
     parameters |->
        [TrainingJobName |-> job_name,
         HyperParameters |-> hp_ref,
         InputDataConfig |-> data,
         OutputDataConfig |-> [S3OutputPath |-> "s3://default/output"],
         DebugHookConfig |-> [S3OutputPath |-> "s3://default/debug"]]]

\* pipeline_model_config: the two containers of the PipelineModel, in the
\* order of its models [preprocessor, estimator]
pipeline_model_config ==
    [ModelName |-> "pipeline-model",
     Containers |-> <<[ModelDataUrl |-> "s3://default/preprocessor.tar.gz"],
                      [ModelDataUrl |-> "s3://default/estimator.tar.gz"]>>]

\* the list of steps build_workflow_definition hands to Chain
WorkflowSteps(default_name, data, nvariants) ==
    <<TrainingStep(TrainPreprocessor, PreprocessorHPRef,
                   default_name \o "/preprocessor-source", data),
      [state_id |-> CreatePreprocessorModel,
       parameters |-> [ModelName |-> default_name,
                       PrimaryContainer |-> [ModelDataUrl |-> "s3://default/preprocessor.tar.gz"]]],
      [state_id |-> TransformInput,
       parameters |-> [ModelName |-> default_name,
                       TransformJobName |-> default_name,
                       TransformOutput |-> [S3OutputPath |-> "s3://default/transform"]]],
      TrainingStep(Train, EstimatorHPRef,
                   default_name \o "/estimator-source", data),
      [state_id |-> CreatePipelineModel,
       parameters |-> pipeline_model_config],
      [state_id |-> ConfigureEndpoint,
       parameters |-> [EndpointConfigName |-> default_name,
                       ProductionVariants |->
                           [i \in 1..nvariants |-> [ModelName |-> default_name]]]],
      [state_id |-> Deploy,
       parameters |-> [EndpointName |-> default_name,
                       EndpointConfigName |-> default_name]]>>

\* Chain(steps): the first step is the start state, each step's next state is
\* the step after it, and the last step ends the workflow
Chain(steps) ==
    [StartAt |-> steps[1].state_id,
     States |-> [s \in {steps[i].state_id : i \in 1..Len(steps)} |->
         LET i == CHOOSE k \in 1..Len(steps) : steps[k].state_id = s
         IN  IF i < Len(steps) THEN Some(steps[i + 1].state_id) ELSE None]]

\* build_workflow_definition with the estimator's training chained before
\* the transform of its input
build_workflow_definition_misordered(default_name, data, nvariants) ==
    LET steps == WorkflowSteps(default_name, data, nvariants)
    IN  Chain(<<steps[1], steps[2], steps[4], steps[3], steps[5], steps[6], steps[7]>>)

build_workflow_definition(default_name, data, nvariants) ==
    Chain(WorkflowSteps(default_name, data, nvariants))

\* _extract_input_template: the parameters of every step, by state id
extract_input_template(steps) ==
    [s \in {steps[i].state_id : i \in 1..Len(steps)} |->
        LET i == CHOOSE k \in 1..Len(steps) : steps[k].state_id = s
        IN  steps[i].parameters]

\* the pipeline name: the keyword argument, or a generated one
PipelineName(kwarg, timestamp) ==
    IF (~kwarg.given) \/ kwarg.val = ""
    THEN "inference-pipeline-" \o timestamp
    ELSE kwarg.val

\* the template with every HyperParameters reference replaced by its value
Deref(inputs, h) ==
    [s \in DOMAIN inputs |->
        IF s \in {TrainPreprocessor, Train}
        THEN [inputs[s] EXCEPT !.HyperParameters = h[@]]
        ELSE inputs[s]]

Init ==
    \E bucket \in Buckets,
       name \in {PipelineName(None, "t1")}
                   \cup {PipelineName(Some(n), "t1") : n \in PipelineNames},
       pre_hp \in {d \in HPDicts : "epochs" \notin DOMAIN d},
       est_hp \in {d \in HPDicts : "epochs" \in DOMAIN d /\ d["epochs"] = "1"},
       extra \in BOOLEAN,
       nvariants \in 1..MaxVariants :
        LET steps == WorkflowSteps(name, InputChannels(extra), nvariants)
            h == (PreprocessorHPRef :> pre_hp) @@ (EstimatorHPRef :> est_hp)
        IN  /\ s3_bucket = bucket
            /\ pipeline_name = name
            /\ definition = build_workflow_definition(name, InputChannels(extra), nvariants)
            /\ input_template = extract_input_template(steps)
            /\ workflow = [name |-> name]
            /\ heap = h
            /\ template0 = Deref(extract_input_template(steps), h)
            /\ caller_hp = <<>>
            /\ execution = <<>>
            /\ entered = <<>>
            /\ status = "none"

----------------------------------------------------------------------------
(* execute *)

\* 's3://{s3_bucket}/{pipeline_name}/models'
ModelsPath(bucket, name) == "s3://" \o bucket \o "/" \o name \o "/models"

\* '{s3_uri}/{job}/output/model.tar.gz'
ModelDataUrl(s3_uri, job) == s3_uri \o "/" \o job \o "/output/model.tar.gz"

\* replace_sagemaker_job_name(config, job_name), as its effect on the heap:
\* the dict config['HyperParameters'] is updated in place, if it has the key
replace_sagemaker_job_name(h, config, job_name) ==
    IF JOB_NAME_PARAM_NAME \in DOMAIN h[config.HyperParameters]
    THEN [h EXCEPT ![config.HyperParameters] =
             DictSet(@, JOB_NAME_PARAM_NAME, "\"" \o job_name \o "\"")]
    ELSE h

\* inputs = self.input_template.copy(): a new top-level dict with the same
\* keys, whose values are the very per-step dicts of self.input_template
ShallowCopy(template) == [s \in DOMAIN template |-> template[s]]

\* the job name: the argument, or a generated one
JobName(job_arg, timestamp) ==
    IF ~job_arg.given
    THEN "inference-pipeline" \o "-" \o timestamp
    ELSE job_arg.val

\* inputs[Train]['HyperParameters'] = hyperparameters: the caller's object
SetHyperparameters(inputs, hp_arg) ==
    IF hp_arg.given
    THEN [inputs EXCEPT ![Train].HyperParameters = CallerHPRef]
    ELSE inputs

\* "Configure preprocessor" with the transform job named after the transform
\* output instead of the preprocessor model
ConfigurePreprocessor_own_transform_name(inputs, bucket, name, job_name) ==
    LET a == [inputs EXCEPT ![TrainPreprocessor].TrainingJobName = "preprocessor-" \o job_name]
        b == [a EXCEPT ![TrainPreprocessor].OutputDataConfig.S3OutputPath = ModelsPath(bucket, name)]
        c == [b EXCEPT ![TrainPreprocessor].DebugHookConfig.S3OutputPath = ModelsPath(bucket, name) \o "/debug"]
        d == [c EXCEPT ![CreatePreprocessorModel].PrimaryContainer.ModelDataUrl =
                 ModelDataUrl(c[TrainPreprocessor].OutputDataConfig.S3OutputPath,
                              c[TrainPreprocessor].TrainingJobName)]
        e == [d EXCEPT ![CreatePreprocessorModel].ModelName = d[TrainPreprocessor].TrainingJobName]
        f == [e EXCEPT ![TransformInput].ModelName = e[CreatePreprocessorModel].ModelName]
        g == [f EXCEPT ![TransformInput].TransformJobName = "preprocessor-transform-" \o job_name]
    IN  [g EXCEPT ![TransformInput].TransformOutput.S3OutputPath =
            "s3://" \o bucket \o "/" \o name \o "/" \o ("preprocessor-transform-" \o job_name) \o "/transform"]

\* "Configure preprocessor"
ConfigurePreprocessor(inputs, bucket, name, job_name) ==
    LET a == [inputs EXCEPT ![TrainPreprocessor].TrainingJobName = "preprocessor-" \o job_name]
        b == [a EXCEPT ![TrainPreprocessor].OutputDataConfig.S3OutputPath = ModelsPath(bucket, name)]
        c == [b EXCEPT ![TrainPreprocessor].DebugHookConfig.S3OutputPath = ModelsPath(bucket, name) \o "/debug"]
        d == [c EXCEPT ![CreatePreprocessorModel].PrimaryContainer.ModelDataUrl =
                 ModelDataUrl(c[TrainPreprocessor].OutputDataConfig.S3OutputPath,
                              c[TrainPreprocessor].TrainingJobName)]
        e == [d EXCEPT ![CreatePreprocessorModel].ModelName = d[TrainPreprocessor].TrainingJobName]
        f == [e EXCEPT ![TransformInput].ModelName = e[CreatePreprocessorModel].ModelName]
        g == [f EXCEPT ![TransformInput].TransformJobName = f[CreatePreprocessorModel].ModelName]
    IN  [g EXCEPT ![TransformInput].TransformOutput.S3OutputPath =
            "s3://" \o bucket \o "/" \o name \o "/" \o ("preprocessor-transform-" \o job_name) \o "/transform"]

\* "Configure training and model" that patches the S3Uri of the first channel
\* and keeps the other channels of the template
ConfigureTraining_keeps_channels(inputs, bucket, name, job_name) ==
    LET a == [inputs EXCEPT ![Train].TrainingJobName = "estimator-" \o job_name]
        b == [a EXCEPT ![Train].InputDataConfig[1].DataSource.S3DataSource.S3Uri =
                 a[TransformInput].TransformOutput.S3OutputPath]
        c == [b EXCEPT ![Train].OutputDataConfig.S3OutputPath = ModelsPath(bucket, name)]
        d == [c EXCEPT ![Train].DebugHookConfig.S3OutputPath = ModelsPath(bucket, name) \o "/debug"]
    IN  [d EXCEPT ![CreatePipelineModel].ModelName = job_name]

\* "Configure training and model"
ConfigureTraining(inputs, bucket, name, job_name) ==
    LET a == [inputs EXCEPT ![Train].TrainingJobName = "estimator-" \o job_name]
        b == [a EXCEPT ![Train].InputDataConfig =
                 <<Channel("train", a[TransformInput].TransformOutput.S3OutputPath)>>]
        c == [b EXCEPT ![Train].OutputDataConfig.S3OutputPath = ModelsPath(bucket, name)]
        d == [c EXCEPT ![Train].DebugHookConfig.S3OutputPath = ModelsPath(bucket, name) \o "/debug"]
    IN  [d EXCEPT ![CreatePipelineModel].ModelName = job_name]

\* "Configure pipeline model" with the two containers' artifacts swapped
ConfigurePipelineModel_swapped(inputs) ==
    LET a == [inputs EXCEPT ![CreatePipelineModel].Containers[2].ModelDataUrl =
                 inputs[CreatePreprocessorModel].PrimaryContainer.ModelDataUrl]
    IN  [a EXCEPT ![CreatePipelineModel].Containers[1].ModelDataUrl =
            ModelDataUrl(a[Train].OutputDataConfig.S3OutputPath, a[Train].TrainingJobName)]

\* "Configure pipeline model"
ConfigurePipelineModel(inputs) ==
    LET a == [inputs EXCEPT ![CreatePipelineModel].Containers[1].ModelDataUrl =
                 inputs[CreatePreprocessorModel].PrimaryContainer.ModelDataUrl]
    IN  [a EXCEPT ![CreatePipelineModel].Containers[2].ModelDataUrl =
            ModelDataUrl(a[Train].OutputDataConfig.S3OutputPath, a[Train].TrainingJobName)]

\* "Configure endpoint" that renames the model of the first production
\* variant only
ConfigureEndpointAndDeploy_first_variant(inputs, job_name) ==
    LET a == [inputs EXCEPT ![ConfigureEndpoint].EndpointConfigName = job_name]
        b == [a EXCEPT ![ConfigureEndpoint].ProductionVariants[1].ModelName = job_name]
        c == [b EXCEPT ![Deploy].EndpointConfigName = job_name]
    IN  [c EXCEPT ![Deploy].EndpointName = job_name]

\* "Configure endpoint"
ConfigureEndpointAndDeploy(inputs, job_name) ==
    LET a == [inputs EXCEPT ![ConfigureEndpoint].EndpointConfigName = job_name]
        b == [a EXCEPT ![ConfigureEndpoint].ProductionVariants =
                 [i \in DOMAIN @ |-> [@[i] EXCEPT !.ModelName = job_name]]]
        c == [b EXCEPT ![Deploy].EndpointConfigName = job_name]
    IN  [c EXCEPT ![Deploy].EndpointName = job_name]

\* the dict objects still referenced once execute has returned: those of
\* the template, and the caller's one while the template refers to it
Live(inputs, h) ==
    [r \in (DOMAIN h) \cap {PreprocessorHPRef, EstimatorHPRef,
                            inputs[TrainPreprocessor].HyperParameters,
                            inputs[Train].HyperParameters} |-> h[r]]

\* execute(job_name=job_arg, hyperparameters=hp_arg); timestamp is what
\* _generate_timestamp would return
execute(job_arg, hp_arg, timestamp) ==
    LET inputs0 == ShallowCopy(input_template)
        heap0 == IF hp_arg.given
                 THEN [r \in (DOMAIN heap) \cup {CallerHPRef} |->
                          IF r = CallerHPRef THEN hp_arg.val ELSE heap[r]]
                 ELSE heap
        inputs1 == SetHyperparameters(inputs0, hp_arg)
        job_name == JobName(job_arg, timestamp)
        inputs2 == ConfigurePreprocessor(inputs1, s3_bucket, workflow.name, job_name)
        heap1 == replace_sagemaker_job_name(heap0, inputs2[TrainPreprocessor],
                                            inputs2[TrainPreprocessor].TrainingJobName)
        inputs3 == ConfigureTraining(inputs2, s3_bucket, workflow.name, job_name)
        heap2 == replace_sagemaker_job_name(heap1, inputs3[Train],
                                            inputs3[Train].TrainingJobName)
        inputs4 == ConfigurePipelineModel(inputs3)
        inputs5 == ConfigureEndpointAndDeploy(inputs4, job_name)
    IN  \* every write went through a per-step dict shared with the template
        /\ input_template' = inputs5
        /\ heap' = Live(inputs5, heap2)
        /\ caller_hp' = IF hp_arg.given THEN <<hp_arg.val>>
                        ELSE caller_hp
        \* workflow.execute(inputs=inputs, name=job_name) serialises the inputs
        /\ execution' = <<[inputs |-> Deref(inputs5, heap2),
                           name |-> job_name,
                           job_arg |-> job_arg,
                           hp_arg |-> hp_arg]>>
        /\ entered' = <<>>
        /\ status' = "running"
        /\ UNCHANGED <<s3_bucket, pipeline_name, workflow, definition, template0>>

Execute ==
    \E hp_arg \in {None} \cup {Some(d) : d \in HPDicts} :
        \/ \E timestamp \in Timestamps : execute(None, hp_arg, timestamp)
        \/ \E j \in JobNames : execute(Some(j), hp_arg, "t1")

----------------------------------------------------------------------------
(* The run of an execution: the service interprets the definition *)

\* the execution enters its next state: StartAt, or the Next of the last one
EnterState ==
    /\ status = "running"
    /\ IF entered = <<>>
       THEN entered' = <<definition.StartAt>>
       ELSE /\ definition.States[entered[Len(entered)]].given
            /\ entered' = Append(entered, definition.States[entered[Len(entered)]].val)
    /\ UNCHANGED <<s3_bucket, pipeline_name, workflow, definition, input_template,
                   heap, template0, caller_hp, execution, status>>

\* the last state entered was an end state and succeeded
Succeed ==
    /\ status = "running"
    /\ entered # <<>>
    /\ ~definition.States[entered[Len(entered)]].given
    /\ status' = "succeeded"
    /\ UNCHANGED <<s3_bucket, pipeline_name, workflow, definition, input_template,
                   heap, template0, caller_hp, execution, entered>>

\* the state entered last fails; no state of the chain has a Catch
FailState ==
    /\ status = "running"
    /\ entered # <<>>
    /\ status' = "failed"
    /\ UNCHANGED <<s3_bucket, pipeline_name, workflow, definition, input_template,
                   heap, template0, caller_hp, execution, entered>>

Next == Execute

Spec == Init /\ [][Next]_vars

\* the pipeline together with the service that runs its executions
InitRun ==
    /\ Init
    /\ s3_bucket = "bkt"
    /\ DOMAIN heap[PreprocessorHPRef] = {}
    /\ DOMAIN heap[EstimatorHPRef] = {"epochs"}
    /\ Len(template0[Train].InputDataConfig) = 1

NextRun == Execute \/ EnterState \/ Succeed \/ FailState

SpecRun == InitRun /\ [][NextRun]_vars

----------------------------------------------------------------------------
(* Properties *)

\* workflow.execute has been called; X is the input it was given
Executed == execution # <<>>

X == execution[1].inputs

StartsWith(str, prefix) ==
    Len(str) >= Len(prefix) /\ SubSeq(str, 1, Len(prefix)) = prefix

\* the order of the steps stated by the class
PipelineOrder ==
    <<TrainPreprocessor, CreatePreprocessorModel, TransformInput, Train,
      CreatePipelineModel, ConfigureEndpoint, Deploy>>

\* C1: the definition is the chain of the seven states in the stated order,
\* every execution enters the states in that order (what it has entered is
\* always a prefix of the order), and an execution that succeeds has entered
\* all seven, Deploy last.
C1_ChainOrder ==
    /\ definition.StartAt = PipelineOrder[1]
    /\ DOMAIN definition.States = {PipelineOrder[i] : i \in 1..7}
    /\ Cardinality(DOMAIN definition.States) = 7
    /\ \A i \in 1..6 : definition.States[PipelineOrder[i]] = Some(PipelineOrder[i + 1])
    /\ definition.States[Deploy] = None
    /\ Len(entered) <= 7
    /\ \A i \in 1..Len(entered) : entered[i] = PipelineOrder[i]
    /\ status = "succeeded" => entered = PipelineOrder

C1_Witness == status = "succeeded" /\ Len(entered) = 7 /\ entered[7] = Deploy

\* C2: when the job name j is given, the ModelName of Create Pipeline Model,
\* the EndpointConfigName of Configure Endpoint, the ModelName of each of its
\* ProductionVariants, the EndpointConfigName and EndpointName of Deploy and
\* the name of the execution all equal j.
C2_DeploymentNamesAgree ==
    (Executed /\ execution[1].job_arg.given) =>
        LET j == execution[1].job_arg.val
        IN  /\ X[CreatePipelineModel].ModelName = j
            /\ X[ConfigureEndpoint].EndpointConfigName = j
            /\ \A i \in DOMAIN X[ConfigureEndpoint].ProductionVariants :
                   X[ConfigureEndpoint].ProductionVariants[i].ModelName = j
            /\ X[Deploy].EndpointConfigName = j
            /\ X[Deploy].EndpointName = j
            /\ execution[1].name = j

C2_Witness ==
    /\ Executed
    /\ execution[1].job_arg.given
    /\ execution[1].job_arg.val # pipeline_name
    /\ Len(X[ConfigureEndpoint].ProductionVariants) >= 2

\* C3: in every execution input, the TrainingJobName of Train Preprocessor,
\* the ModelName of Create Preprocessor Model and the ModelName and
\* TransformJobName of Transform Input are one string, which differs from
\* the TrainingJobName of Training.
C3_PreprocessorNamePropagated ==
    Executed =>
        /\ X[CreatePreprocessorModel].ModelName = X[TrainPreprocessor].TrainingJobName
        /\ X[TransformInput].ModelName = X[TrainPreprocessor].TrainingJobName
        /\ X[TransformInput].TransformJobName = X[TrainPreprocessor].TrainingJobName
        /\ X[TrainPreprocessor].TrainingJobName # X[Train].TrainingJobName

C3_Witness ==
    /\ Executed
    /\ ~execution[1].job_arg.given
    /\ X[TransformInput].TransformJobName # template0[TransformInput].TransformJobName

\* C4: when the job name j is given, the TrainingJobName of Train Preprocessor
\* is 'preprocess-' followed by j.
C4_PreprocessPrefix ==
    (Executed /\ execution[1].job_arg.given) =>
        X[TrainPreprocessor].TrainingJobName = "preprocess-" \o execution[1].job_arg.val

\* C5: when the job name j is given, every model-artifact URL of the input
\* starts with s3://<bucket>/<pipeline name>/models/<j>/.
C5_ArtifactsUnderJobPath ==
    (Executed /\ execution[1].job_arg.given) =>
        LET parent == "s3://" \o s3_bucket \o "/" \o pipeline_name \o "/models/"
                          \o execution[1].job_arg.val \o "/"
        IN  /\ StartsWith(X[CreatePreprocessorModel].PrimaryContainer.ModelDataUrl, parent)
            /\ StartsWith(X[CreatePipelineModel].Containers[1].ModelDataUrl, parent)
            /\ StartsWith(X[CreatePipelineModel].Containers[2].ModelDataUrl, parent)

\* the mapping `got` has the keys of `want` and its values, except for the
\* job-name key, whose value is job_name in double quotes
SameButJobName(got, want, job_name) ==
    /\ DOMAIN got = DOMAIN want
    /\ \A k \in DOMAIN got :
           got[k] = IF k = JOB_NAME_PARAM_NAME
                    THEN "\"" \o job_name \o "\""
                    ELSE want[k]

\* C6: the HyperParameters of Training in the input are the given mapping,
\* or the construction-time ones when none is given, except for the job-name
\* key, which is never added and, if present, is the quoted TrainingJobName;
\* those of Train Preprocessor do not depend on the argument.
C6_HyperparametersSet ==
    Executed =>
        /\ SameButJobName(X[Train].HyperParameters,
                          IF execution[1].hp_arg.given
                          THEN execution[1].hp_arg.val
                          ELSE template0[Train].HyperParameters,
                          X[Train].TrainingJobName)
        /\ SameButJobName(X[TrainPreprocessor].HyperParameters,
                          template0[TrainPreprocessor].HyperParameters,
                          X[TrainPreprocessor].TrainingJobName)

\* C7: the ModelDataUrl of Create Preprocessor Model and of container 0 of
\* Create Pipeline Model is <S3OutputPath>/<TrainingJobName>/output/model.tar.gz
\* of Train Preprocessor, that of container 1 is the same of Training, and
\* the two containers' URLs differ.
C7_ModelDataUrlsDerived ==
    Executed =>
        LET pre == X[TrainPreprocessor].OutputDataConfig.S3OutputPath \o "/"
                       \o X[TrainPreprocessor].TrainingJobName \o "/output/model.tar.gz"
            est == X[Train].OutputDataConfig.S3OutputPath \o "/"
                       \o X[Train].TrainingJobName \o "/output/model.tar.gz"
        IN  /\ X[CreatePreprocessorModel].PrimaryContainer.ModelDataUrl = pre
            /\ Len(X[CreatePipelineModel].Containers) = 2
            /\ X[CreatePipelineModel].Containers[1].ModelDataUrl = pre
            /\ X[CreatePipelineModel].Containers[2].ModelDataUrl = est
            /\ X[CreatePipelineModel].Containers[1].ModelDataUrl #
                   X[CreatePipelineModel].Containers[2].ModelDataUrl

C7_Witness ==
    /\ Executed
    /\ X[CreatePipelineModel].Containers[2].ModelDataUrl #
           template0[CreatePipelineModel].Containers[2].ModelDataUrl
    /\ X[TrainPreprocessor].OutputDataConfig.S3OutputPath #
           template0[TrainPreprocessor].OutputDataConfig.S3OutputPath

\* C8: the InputDataConfig of Training in the input is exactly one channel,
\* named 'train', whose S3Uri is the TransformOutput.S3OutputPath of Transform
\* Input, s3://<bucket>/<pipeline name>/preprocessor-transform-<job name>/transform;
\* the InputDataConfig of Train Preprocessor is that of the template.
C8_TrainsOnTransformOutput ==
    Executed =>
        /\ Len(X[Train].InputDataConfig) = 1
        /\ X[Train].InputDataConfig[1].ChannelName = "train"
        /\ X[Train].InputDataConfig[1].DataSource.S3DataSource.S3Uri =
               X[TransformInput].TransformOutput.S3OutputPath
        /\ X[TransformInput].TransformOutput.S3OutputPath =
               "s3://" \o s3_bucket \o "/" \o pipeline_name \o "/preprocessor-transform-"
                   \o execution[1].name \o "/transform"
        /\ X[TrainPreprocessor].InputDataConfig = template0[TrainPreprocessor].InputDataConfig

C8_Witness ==
    /\ Executed
    /\ Len(template0[Train].InputDataConfig) = 2
    /\ Len(X[TrainPreprocessor].InputDataConfig) = 2

\* C9: after any sequence of execute calls, self.input_template, nested
\* mappings included, equals the template extracted at construction.
C9_TemplateUnchanged == Deref(input_template, heap) = template0

\* C10: after execute(hyperparameters=H), and after any later call, the
\* caller's H has the keys and values it had before the call (which it could
\* not keep for every H if the execution input held the caller's object).
C10_CallerMappingUnchanged ==
    (Executed /\ caller_hp # <<>>) => heap[CallerHPRef] = caller_hp[1]

====
